---- MODULE Spec2Model ----
(***************************************************************************)
(* Model of the offline-caching service worker of Eishi-DRPASS.            *)
(*   src/sw.js               the current worker, cache emergency-system-   *)
(*                           v1.0.1                                        *)
(*   src/unnamed/part_000    the superseded worker, cache emergency-       *)
(*                           system-v1.0.0                                 *)
(* Both workers share the origin's CacheStorage.  Every handler is a       *)
(* sequence of asynchronous steps; one action of the model is one step     *)
(* (the code between two awaited promises), so that handlers interleave    *)
(* exactly where the event loop lets them.                                 *)
(***************************************************************************)
EXTENDS Integers, Sequences, FiniteSets, TLC

(***************************************************************************)
(* Bounds of the model.                                                    *)
(***************************************************************************)
MaxFetch == 2        \* fetch events dispatched to sw.js
MaxOldFetch == 1     \* fetch events dispatched to the superseded worker
MaxOldSync == 1      \* sync events dispatched to the superseded worker
MaxMessage == 2      \* message events dispatched to sw.js
MaxSync == 2         \* sync / periodicsync events dispatched to sw.js
MaxMix == 1          \* events of each kind when fetch, message and sync are mixed
MaxPayload == 2      \* message payloads are {id: 1} .. {id: MaxPayload}

(***************************************************************************)
(* Program constants.                                                      *)
(***************************************************************************)
CACHE_NAME == "emergency-system-v1.0.1"
OFFLINE_URL == "/offline.html"
STATIC_CACHE_URLS == <<"/", "/index.html", "/offline.html", "/manifest.json">>
EMERGENCY_KEY == "/emergency-data.json"
SCANS_KEY == "/student-scans.json"

OLD_CACHE_NAME == "emergency-system-v1.0.0"
OLD_OFFLINE_URL == "/assets/offline.html"
QUEUED_KEY == "/queued-data"
urlsToCache ==
    <<"/", "/index.html", "/manifest.json", "/assets/offline.html",
      "/icons/icon-192.png", "/icons/icon-512.png", "/icons/icon-maskable.png">>

Range(s) == {s[i] : i \in DOMAIN s}

\* a cache of the origin that neither worker names (an earlier deployment's)
OTHER_CACHE_NAME == "emergency-system-v0.9.0"

CacheNames == {CACHE_NAME, OLD_CACHE_NAME, OTHER_CACHE_NAME}
ReqPaths == {"/index.html", "/api", EMERGENCY_KEY}
Paths == Range(STATIC_CACHE_URLS) \cup Range(urlsToCache)
            \cup {EMERGENCY_KEY, SCANS_KEY, QUEUED_KEY} \cup ReqPaths

(***************************************************************************)
(* URLs.  The serialization of a URL is the sequence of its pieces (a host  *)
(* is itself one or more pieces); the pieces are chosen so that one        *)
(* sequence is a prefix of another exactly when the one string is a prefix *)
(* of the other (no piece begins like another piece that can stand in the  *)
(* same place).                                                            *)
(***************************************************************************)
Url(scheme, host, port, path) == [scheme |-> scheme, host |-> host, port |-> port, path |-> path]

\* URL.href: scheme, "://", host, ":port" unless the port is the scheme's default
Href(u) ==
    IF u.scheme = "data" THEN <<"data", ":", u.path>>
    ELSE (IF u.scheme = "https" THEN <<"http", "s">> ELSE <<"http">>)
         \o <<"://">> \o u.host
         \o (IF u.port = "" THEN <<>> ELSE <<":" \o u.port>>)
         \o <<u.path>>

\* self.location: the worker script is served from http://x.io
Location == Url("http", <<"x.io">>, "", "/sw.js")

\* self.location.origin
Origin(u) ==
    (IF u.scheme = "https" THEN <<"http", "s">> ELSE <<"http">>)
    \o <<"://">> \o u.host
    \o (IF u.port = "" THEN <<>> ELSE <<":" \o u.port>>)

\* String.prototype.startsWith
StartsWith(s, p) == Len(p) <= Len(s) /\ SubSeq(s, 1, Len(p)) = p

\* same origin as the glossary defines it: scheme, host and port agree
SameOrigin(u) ==
    /\ u.scheme \in {"http", "https"}
    /\ u.scheme = Location.scheme
    /\ u.host = Location.host
    /\ u.port = Location.port

ForeignUrls ==
    { Url("http", <<"x.io", ".evil">>, "", "/index.html"),  \* begins with the origin string
      Url("http", <<"x.io">>, "8080", "/index.html"),       \* other port, begins with the origin string
      Url("https", <<"x.io">>, "", "/index.html"),          \* other scheme
      Url("http", <<"y.io">>, "", "/index.html"),           \* other host
      Url("data", <<>>, "", "text") }                        \* not a network request

\* a request: its URL, its method, its mode ("navigate" for the load of a
\* page, "cors" for a request a script makes) and its accept header: absent,
\* one that includes text/html, or one that does not
Request(url, method, mode, accept) ==
    [url |-> url, method |-> method, mode |-> mode, accept |-> accept]

\* the kinds of request the page makes
RequestKinds ==
    { <<"GET", "navigate", "text/html,*/*">>,
      <<"GET", "navigate", "absent">>,
      <<"GET", "cors", "*/*">>,
      <<"GET", "cors", "absent">>,
      <<"POST", "cors", "*/*">> }

Requests ==
    { Request(Url("http", <<"x.io">>, "", p), k[1], k[2], k[3]) : p \in ReqPaths, k \in RequestKinds }
    \cup { Request(u, "GET", "cors", "*/*") : u \in ForeignUrls }

\* the requests the page makes while the superseded worker controls it: the
\* same, and one for the path the worker's sync reads
OldRequests ==
    Requests \cup { Request(Url("http", <<"x.io">>, "", QUEUED_KEY), "GET", "cors", "*/*") }

\* the request for the offline page itself: the browser loads it as a page
OfflineRequests ==
    { Request(Url("http", <<"x.io">>, "", OFFLINE_URL), "GET", "navigate", "text/html,*/*") }

\* a test that takes any accept header for one that includes text/html
AcceptPresent(accept) == accept # "absent"

\* request.headers.get('accept')?.includes('text/html')
AcceptIncludesHtml(accept) == accept = "text/html,*/*"

(***************************************************************************)
(* Responses.                                                              *)
(***************************************************************************)
NoEntry == [k |-> "undefined"]       \* a lookup that found nothing
Pending == [k |-> "pending"]         \* a promise not settled yet
Rejected == [k |-> "rejected"]       \* a promise that rejected
Failed == [k |-> "failed"]           \* fetch() rejected: no network

Resp(status, type, ctype, body) ==
    [k |-> "response", status |-> status, type |-> type, ctype |-> ctype, body |-> body]

IsResponse(r) == r.k = "response"

\* JSON.stringify of a message payload; undefined has no serialization
Stringify(p) == IF p.defined THEN "{id:" \o ToString(p.id) \o "}" ELSE ""

Payloads == { [defined |-> TRUE, id |-> n] : n \in 1..MaxPayload }
               \cup { [defined |-> FALSE, id |-> 0] }

\* Response.json(): the texts that are JSON documents parse, the others throw
JsonParses(body) == \E n \in 0..MaxPayload : body = Stringify([defined |-> TRUE, id |-> n])

\* what the server of the origin sends for a path
NetBody(path) ==
    IF path \in {EMERGENCY_KEY, SCANS_KEY, QUEUED_KEY, "/manifest.json"}
    THEN Stringify([defined |-> TRUE, id |-> 0])
    ELSE "<html>" \o path

NetCType(path) ==
    IF path \in {EMERGENCY_KEY, SCANS_KEY, QUEUED_KEY, "/manifest.json"} THEN "application/json"
    ELSE IF path \in {"/icons/icon-192.png", "/icons/icon-512.png", "/icons/icon-maskable.png"}
         THEN "image/png"
         ELSE "text/html"

\* the bodies the server can send for a path: the offline page is deployed in
\* two revisions, every other path has one content
NetBodies(path) ==
    {NetBody(path)} \cup (IF path = OFFLINE_URL THEN {NetBody(path) \o "#2"} ELSE {})

Statuses == {200, 203, 404}

\* the responses fetch() can resolve with for a URL: "basic" is the type of a
\* same-origin response only
NetResponses(u) ==
    IF SameOrigin(u)
    THEN { Resp(s, "basic", NetCType(u.path), b) : s \in Statuses, b \in NetBodies(u.path) }
         \cup { Resp(0, "opaqueredirect", "", "") }
    ELSE { Resp(200, "cors", "text/html", "<html>foreign"), Resp(0, "opaque", "", "") }

\* new Response(JSON.stringify(payload)): a string body gets the content type
\* text/plain; JSON.stringify(undefined) is undefined and new Response(undefined)
\* has no body and no Content-Type header
PayloadResponse(p) ==
    Resp(200, "default", IF p.defined THEN "text/plain" ELSE "", Stringify(p))

\* the page synthesized inline by the fetch handler of sw.js
InlineOffline == Resp(200, "default", "text/html", "<html>You're Offline")

(***************************************************************************)
(* State.                                                                  *)
(***************************************************************************)
VARIABLES
    cacheList,     \* CacheStorage: the names of the existing caches, oldest first
    store,         \* CacheStorage: the entries of each cache, by path at the origin
    newW,          \* lifecycle state of the sw.js worker
    oldW,          \* lifecycle state of the superseded worker
    skipWaiting,   \* sw.js has called self.skipWaiting()
    install,       \* the install handler of sw.js
    activate,      \* the activate handler of sw.js
    fetches,       \* the fetch events dispatched to sw.js, in order
    messages,      \* the message events dispatched to sw.js, in order
    syncs,         \* the sync and periodicsync events dispatched to sw.js, in order
    oldInstall,    \* the install handler of the superseded worker
    oldActivate,   \* the activate handler of the superseded worker
    oldFetches,    \* the fetch events dispatched to the superseded worker, in order
    oldSyncs       \* the sync events dispatched to the superseded worker, in order

vars == <<cacheList, store, newW, oldW, skipWaiting, install, activate, fetches,
          messages, syncs, oldInstall, oldActivate, oldFetches, oldSyncs>>

cacheVars == <<cacheList, store>>
newHandlers == <<install, activate, fetches, messages, syncs>>
oldHandlers == <<oldInstall, oldActivate, oldFetches, oldSyncs>>

(***************************************************************************)
(* CacheStorage and Cache.                                                 *)
(***************************************************************************)
EmptyCache == [p \in Paths |-> NoEntry]

Min(S) == CHOOSE x \in S : \A y \in S : x <= y

\* caches.keys()
Keys(cl) == Range(cl)

\* caches.open(name): the cache is created when it does not exist
Open(cl, name) == IF name \in Range(cl) THEN cl ELSE Append(cl, name)

\* caches.delete(name)
Delete(cl, name) == SelectSeq(cl, LAMBDA n : n # name)

\* cache.put(path, response) on the cache called name
Put(st, name, path, resp) == [st EXCEPT ![name][path] = resp]

\* a cache.delete that empties the cache instead of removing one entry
RemoveEverything(st, name, path) == [st EXCEPT ![name] = EmptyCache]

\* cache.delete(path) on the cache called name
Remove(st, name, path) == [st EXCEPT ![name][path] = NoEntry]

\* cache.match(path) on the cache called name
Match(st, name, path) == st[name][path]

\* caches.match(request): the first hit over the caches, oldest first; only a
\* GET request matches, and every key is a URL of the worker's origin
MatchAll(cl, st, req) ==
    IF req.method # "GET" \/ ~SameOrigin(req.url) THEN NoEntry
    ELSE LET hits == { i \in DOMAIN cl : st[cl[i]][req.url.path] # NoEntry }
         IN IF hits = {} THEN NoEntry ELSE st[cl[Min(hits)]][req.url.path]

\* a relative URL handed to the cache API is resolved against the worker's URL
Resolve(path) ==
    Request(Url(Location.scheme, Location.host, Location.port, path), "GET", "cors", "*/*")

\* Response.ok
Ok(r) == r.status >= 200 /\ r.status <= 299

(***************************************************************************)
(* Initial state: no worker is registered; the origin has no cache, or one  *)
(* left by an earlier deployment.                                          *)
(***************************************************************************)
IdleInstall == [pc |-> "idle", pending |-> {}, stored |-> {}, failed |-> {}, result |-> "pending"]
IdleActivate == [pc |-> "idle", listed |-> {}, toDelete |-> {}, deleted |-> {},
                 keysDone |-> FALSE, claimed |-> FALSE, result |-> "pending"]

InitWith(caches) ==
    /\ cacheList \in caches
    /\ store = [n \in CacheNames |-> EmptyCache]
    /\ newW = "parsed"
    /\ oldW = "parsed"
    /\ skipWaiting = FALSE
    /\ install = IdleInstall
    /\ activate = IdleActivate
    /\ fetches = <<>>
    /\ messages = <<>>
    /\ syncs = <<>>
    /\ oldInstall = IdleInstall
    /\ oldActivate = IdleActivate
    /\ oldFetches = <<>>
    /\ oldSyncs = <<>>

Init == InitWith({<<>>, <<OTHER_CACHE_NAME>>})

\* a first installation on an origin that has no cache yet
InitEmpty == InitWith({<<>>})

(***************************************************************************)
(* The superseded worker: install.                                         *)
(***************************************************************************)
\* the sets of assets whose fetch fails during cache.addAll
OldFailSets == { {}, {"/icons/icon-512.png"}, {"/", "/index.html"} }

\* the browser starts the install of the first version
OldInstallStart ==
    /\ oldW = "parsed" /\ newW = "parsed"
    /\ oldW' = "installing"
    /\ oldInstall' = [IdleInstall EXCEPT !.pc = "open"]
    /\ UNCHANGED <<cacheVars, newW, skipWaiting, newHandlers, oldActivate, oldFetches, oldSyncs>>

\* caches.open(CACHE_NAME)
OldInstallOpen ==
    /\ oldInstall.pc = "open"
    /\ cacheList' = Open(cacheList, OLD_CACHE_NAME)
    /\ oldInstall' = [oldInstall EXCEPT !.pc = "adding", !.pending = Range(urlsToCache)]
    /\ UNCHANGED <<store, newW, oldW, skipWaiting, newHandlers, oldActivate, oldFetches, oldSyncs>>

\* every asset of the list stored in the cache called name
PutAll(st, name, urls) ==
    [st EXCEPT ![name] = [p \in Paths |->
        IF p \in urls THEN Resp(200, "basic", NetCType(p), NetBody(p)) ELSE st[name][p]]]

\* cache.addAll(urlsToCache) settles: all the assets are stored and the next
\* then calls self.skipWaiting(), whose promise is still pending; or none is
\* stored and the rejection reaches the promise given to waitUntil
OldInstallAddAll(F) ==
    /\ oldInstall.pc = "adding"
    /\ oldInstall.pending # {}
    /\ IF F = {}
       THEN /\ store' = PutAll(store, OLD_CACHE_NAME, Range(urlsToCache))
            /\ oldInstall' = [oldInstall EXCEPT !.pending = {}, !.stored = Range(urlsToCache)]
            /\ oldW' = oldW
       ELSE /\ store' = store
            /\ oldInstall' = [oldInstall EXCEPT !.pc = "done", !.pending = {},
                                 !.failed = F, !.result = "rejected"]
            /\ oldW' = "redundant"
    /\ UNCHANGED <<cacheList, newW, skipWaiting, newHandlers, oldActivate, oldFetches, oldSyncs>>

\* the promise of self.skipWaiting() resolves in a later turn, and with it
\* the promise given to waitUntil: the install has succeeded
OldInstallSkipWaiting ==
    /\ oldInstall.pc = "adding"
    /\ oldInstall.pending = {}
    /\ oldInstall' = [oldInstall EXCEPT !.pc = "done", !.result = "fulfilled"]
    /\ oldW' = "installed"
    /\ UNCHANGED <<cacheVars, newW, skipWaiting, newHandlers, oldActivate, oldFetches, oldSyncs>>

(***************************************************************************)
(* sw.js: install.                                                         *)
(***************************************************************************)
\* the superseded worker has no event whose waitUntil / respondWith promise
\* is still pending
OldHasNoPendingEvents ==
    /\ oldInstall.pc \in {"idle", "done"}
    /\ oldActivate.pc \in {"idle", "done"}
    /\ \A i \in DOMAIN oldFetches : oldFetches[i].pc = "done"
    /\ \A i \in DOMAIN oldSyncs : oldSyncs[i].fl.pc \in {"none", "done"}

\* the browser finds the updated script and starts its install
InstallStart ==
    /\ newW = "parsed"
    /\ oldW \in {"parsed", "activated", "redundant"}
    /\ newW' = "installing"
    /\ install' = [IdleInstall EXCEPT !.pc = "open"]
    /\ UNCHANGED <<cacheVars, oldW, skipWaiting, activate, fetches, messages, syncs, oldHandlers>>

\* caches.open(CACHE_NAME): on success the four cache.add calls are started;
\* a rejection goes to the final catch, which logs it, and the promise given
\* to waitUntil fulfils without skipWaiting having been called
InstallOpen(ok) ==
    /\ install.pc = "open"
    /\ IF ok
       THEN /\ cacheList' = Open(cacheList, CACHE_NAME)
            /\ install' = [install EXCEPT !.pc = "adding", !.pending = Range(STATIC_CACHE_URLS)]
            /\ newW' = newW
       ELSE /\ cacheList' = cacheList
            /\ install' = [install EXCEPT !.pc = "done", !.result = "fulfilled"]
            /\ newW' = "installed"
    /\ UNCHANGED <<store, oldW, skipWaiting, activate, fetches, messages, syncs, oldHandlers>>

\* the outcomes of the fetch of cache.add(url)
AddOutcomes(url) ==
    {Failed} \cup { r \in NetResponses(Resolve(url).url) : r.type = "basic" }

\* a cache.add that stores whatever the fetch gave
AddStoresAnything(r) == TRUE

\* cache.add stores the response of a fetch that resolved with an ok status
AddStores(r) == IsResponse(r) /\ Ok(r)

\* cache.add(url).catch(...): the response is stored, or the rejection is
\* logged and skipped
InstallAdd(url, r) ==
    /\ install.pc = "adding"
    /\ url \in install.pending
    /\ IF AddStores(r)
       THEN /\ store' = Put(store, CACHE_NAME, url, r)
            /\ install' = [install EXCEPT !.pending = @ \ {url}, !.stored = @ \cup {url}]
       ELSE /\ store' = store
            /\ install' = [install EXCEPT !.pending = @ \ {url}, !.failed = @ \cup {url}]
    /\ UNCHANGED <<cacheList, newW, oldW, skipWaiting, activate, fetches, messages, syncs, oldHandlers>>

\* an install that calls self.skipWaiting() without waiting for Promise.all
InstallSkipWaitingEarly ==
    /\ install.pc = "adding"
    /\ skipWaiting' = TRUE
    /\ install' = [install EXCEPT !.pc = "done", !.result = "fulfilled"]
    /\ newW' = "installed"
    /\ UNCHANGED <<cacheVars, oldW, activate, fetches, messages, syncs, oldHandlers>>

\* Promise.all has settled: self.skipWaiting(), and waitUntil's promise fulfils
InstallSkipWaiting ==
    /\ install.pc = "adding"
    /\ install.pending = {}
    /\ skipWaiting' = TRUE
    /\ install' = [install EXCEPT !.pc = "done", !.result = "fulfilled"]
    /\ newW' = "installed"
    /\ UNCHANGED <<cacheVars, oldW, activate, fetches, messages, syncs, oldHandlers>>

(***************************************************************************)
(* The superseded worker: activate.                                        *)
(***************************************************************************)
\* caches.delete(name) as the handles held by running handlers see it: a
\* handle opened before the deletion writes to a cache no lookup reaches
Orphan(fs, name) ==
    [i \in DOMAIN fs |-> IF name = OLD_CACHE_NAME THEN [fs[i] EXCEPT !.live = FALSE] ELSE fs[i]]

OldActivateStart ==
    /\ oldW = "installed"
    /\ oldW' = "activating"
    /\ oldActivate' = [IdleActivate EXCEPT !.pc = "running"]
    /\ UNCHANGED <<cacheVars, newW, skipWaiting, newHandlers, oldInstall, oldFetches, oldSyncs>>

\* caches.keys().then(...): the deletions of the other caches are started
OldActivateKeys ==
    /\ oldActivate.pc = "running"
    /\ ~oldActivate.keysDone
    /\ oldActivate' = [oldActivate EXCEPT !.keysDone = TRUE, !.listed = Keys(cacheList),
                          !.toDelete = Keys(cacheList) \ {OLD_CACHE_NAME}]
    /\ UNCHANGED <<cacheVars, newW, oldW, skipWaiting, newHandlers, oldInstall, oldFetches, oldSyncs>>

\* caches.delete(cacheName)
OldActivateDelete(n) ==
    /\ oldActivate.pc = "running"
    /\ n \in oldActivate.toDelete
    /\ cacheList' = Delete(cacheList, n)
    /\ store' = [store EXCEPT ![n] = EmptyCache]
    /\ oldActivate' = [oldActivate EXCEPT !.toDelete = @ \ {n}, !.deleted = @ \cup {n}]
    /\ UNCHANGED <<newW, oldW, skipWaiting, newHandlers, oldInstall, oldFetches, oldSyncs>>

\* .then(() => self.clients.claim()): only after every deletion has finished
OldActivateClaim ==
    /\ oldActivate.pc = "running"
    /\ oldActivate.keysDone
    /\ oldActivate.toDelete = {}
    /\ oldActivate' = [oldActivate EXCEPT !.pc = "done", !.claimed = TRUE, !.result = "fulfilled"]
    /\ oldW' = "activated"
    /\ UNCHANGED <<cacheVars, newW, skipWaiting, newHandlers, oldInstall, oldFetches, oldSyncs>>

(***************************************************************************)
(* sw.js: activate.                                                        *)
(***************************************************************************)
\* the browser activates the installed worker once the active one has no
\* pending event; the active one becomes redundant
ActivateStart ==
    /\ newW = "installed"
    /\ OldHasNoPendingEvents
    /\ newW' = "activating"
    /\ oldW' = IF oldW = "activated" THEN "redundant" ELSE oldW
    /\ activate' = [IdleActivate EXCEPT !.pc = "running"]
    /\ UNCHANGED <<cacheVars, skipWaiting, install, fetches, messages, syncs, oldHandlers>>

\* an activation that also spares the cache of the version before
StaleCachesButLast(names) == names \ {CACHE_NAME, OLD_CACHE_NAME}

\* the caches the handler deletes: cacheName !== CACHE_NAME
StaleCaches(names) == names \ {CACHE_NAME}

\* caches.keys().then(...): the deletions of the other caches are started
ActivateKeys ==
    /\ activate.pc = "running"
    /\ ~activate.keysDone
    /\ activate' = [activate EXCEPT !.keysDone = TRUE, !.listed = Keys(cacheList),
                       !.toDelete = StaleCaches(Keys(cacheList))]
    /\ UNCHANGED <<cacheVars, newW, oldW, skipWaiting, install, fetches, messages, syncs, oldHandlers>>

\* caches.delete(cacheName)
ActivateDelete(n) ==
    /\ activate.pc = "running"
    /\ n \in activate.toDelete
    /\ cacheList' = Delete(cacheList, n)
    /\ store' = [store EXCEPT ![n] = EmptyCache]
    /\ activate' = [activate EXCEPT !.toDelete = @ \ {n}, !.deleted = @ \cup {n}]
    /\ oldFetches' = Orphan(oldFetches, n)
    /\ UNCHANGED <<newW, oldW, skipWaiting, install, fetches, messages, syncs, oldInstall, oldActivate, oldSyncs>>

\* self.clients.claim(), started together with caches.keys()
ActivateClaim ==
    /\ activate.pc = "running"
    /\ ~activate.claimed
    /\ activate' = [activate EXCEPT !.claimed = TRUE]
    /\ UNCHANGED <<cacheVars, newW, oldW, skipWaiting, install, fetches, messages, syncs, oldHandlers>>

\* the outer Promise.all settles: both branches have finished
ActivateDone ==
    /\ activate.pc = "running"
    /\ activate.keysDone
    /\ activate.toDelete = {}
    /\ activate.claimed
    /\ activate' = [activate EXCEPT !.pc = "done", !.result = "fulfilled"]
    /\ newW' = "activated"
    /\ UNCHANGED <<cacheVars, oldW, skipWaiting, install, fetches, messages, syncs, oldHandlers>>

(***************************************************************************)
(* sw.js: fetch.                                                           *)
(***************************************************************************)
\* one dispatched fetch event
FetchEvent(req, intercepted) ==
    [req |-> req,
     intercepted |-> intercepted,      \* event.respondWith was called
     pc |-> IF intercepted THEN "match" ELSE "done",
     cacheRead |-> FALSE,              \* caches.match(event.request) was called
     hit |-> NoEntry,                  \* what that lookup returned
     netCalled |-> FALSE,              \* fetch(event.request) was called
     net |-> NoEntry,                  \* what the network answered
     response |-> IF intercepted THEN Pending ELSE NoEntry,  \* respondWith's promise
     bg |-> "none",                    \* the background cache write
     live |-> FALSE]                   \* the background write's cache still exists

\* the two guards before respondWith: url.startsWith('http') and
\* url.startsWith(self.location.origin)
Intercepts(req) ==
    /\ StartsWith(Href(req.url), <<"http">>)
    /\ StartsWith(Href(req.url), Origin(Location))

\* a handler that stores every 200, whatever its type
CacheableAnyType(r) == r.status = 200

\* the response is one the handler stores
Cacheable(r) == r.status = 200 /\ r.type = "basic"

FetchDispatch(req, limit) ==
    /\ newW = "activated"
    /\ Len(fetches) < limit
    /\ fetches' = Append(fetches, FetchEvent(req, Intercepts(req)))
    /\ UNCHANGED <<cacheVars, newW, oldW, skipWaiting, install, activate, messages, syncs, oldHandlers>>

\* a handler that asks the network whatever the lookup found
ServeFromCacheNetworkFirst(f, h) == [f EXCEPT !.cacheRead = TRUE, !.pc = "net"]

\* .then((cachedResponse) => ...): a hit is the response, a miss goes on to
\* the network
ServeFromCache(f, h) ==
    IF h # NoEntry
    THEN [f EXCEPT !.cacheRead = TRUE, !.hit = h, !.response = h, !.pc = "done"]
    ELSE [f EXCEPT !.cacheRead = TRUE, !.pc = "net"]

\* caches.match(event.request).then(...)
FetchMatch(i) ==
    /\ i \in DOMAIN fetches
    /\ fetches[i].pc = "match"
    /\ fetches' = [fetches EXCEPT ![i] = ServeFromCache(@, MatchAll(cacheList, store, @.req))]
    /\ UNCHANGED <<cacheVars, newW, oldW, skipWaiting, install, activate, messages, syncs, oldHandlers>>

\* what the handler does with the outcome r of fetch(event.request.clone())
FetchSettle(f, r) ==
    IF IsResponse(r)
    THEN IF ~Cacheable(r)
         THEN [f EXCEPT !.netCalled = TRUE, !.net = r, !.response = r, !.pc = "done"]
         ELSE [f EXCEPT !.netCalled = TRUE, !.net = r, !.response = r, !.pc = "done",
                        !.bg = "open"]
    ELSE IF AcceptIncludesHtml(f.req.accept)
         THEN [f EXCEPT !.netCalled = TRUE, !.net = r, !.pc = "offline"]
         ELSE [f EXCEPT !.netCalled = TRUE, !.net = r, !.response = Rejected, !.pc = "done"]

\* fetch(event.request.clone()).then(...).catch(...)
FetchNet(i, r) ==
    /\ i \in DOMAIN fetches
    /\ fetches[i].pc = "net"
    /\ r \in {Failed} \cup NetResponses(fetches[i].req.url)
    /\ fetches' = [fetches EXCEPT ![i] = FetchSettle(@, r)]
    /\ UNCHANGED <<cacheVars, newW, oldW, skipWaiting, install, activate, messages, syncs, oldHandlers>>

\* caches.match(OFFLINE_URL).then(...): the cached page, else the inline one
OfflineResponse(h) == IF h # NoEntry THEN h ELSE InlineOffline

FetchOffline(i) ==
    /\ i \in DOMAIN fetches
    /\ fetches[i].pc = "offline"
    /\ fetches' = [fetches EXCEPT ![i] =
          [@ EXCEPT !.response = OfflineResponse(MatchAll(cacheList, store, Resolve(OFFLINE_URL))),
                    !.pc = "done"]]
    /\ UNCHANGED <<cacheVars, newW, oldW, skipWaiting, install, activate, messages, syncs, oldHandlers>>

\* a background write that stores the response to any request
PutsRequestAnyMethod(req) == TRUE

\* the request is one the background write stores
PutsRequest(req) == req.method = "GET"

\* caches.open(CACHE_NAME).then(...), not awaited by respondWith
FetchBgOpen(i) ==
    /\ i \in DOMAIN fetches
    /\ fetches[i].bg = "open"
    /\ cacheList' = Open(cacheList, CACHE_NAME)
    /\ fetches' = [fetches EXCEPT ![i] =
          IF PutsRequest(@.req) THEN [@ EXCEPT !.bg = "put", !.live = TRUE]
                                ELSE [@ EXCEPT !.bg = "skipped"]]
    /\ UNCHANGED <<store, newW, oldW, skipWaiting, install, activate, messages, syncs, oldHandlers>>

\* cache.put(event.request, responseToCache); the write can fail (quota)
FetchBgPut(i, ok) ==
    /\ i \in DOMAIN fetches
    /\ fetches[i].bg = "put"
    /\ IF ok
       THEN /\ store' = Put(store, CACHE_NAME, fetches[i].req.url.path, fetches[i].net)
            /\ fetches' = [fetches EXCEPT ![i].bg = "stored"]
       ELSE /\ store' = store
            /\ fetches' = [fetches EXCEPT ![i].bg = "failed"]
    /\ UNCHANGED <<cacheList, newW, oldW, skipWaiting, install, activate, messages, syncs, oldHandlers>>

(***************************************************************************)
(* The superseded worker: fetch.                                           *)
(***************************************************************************)
\* the one guard before respondWith: url.startsWith(self.location.origin)
OldIntercepts(req) == StartsWith(Href(req.url), Origin(Location))

OldFetchDispatch(req) ==
    /\ oldW = "activated"
    /\ Len(oldFetches) < MaxOldFetch
    /\ oldFetches' = Append(oldFetches, FetchEvent(req, OldIntercepts(req)))
    /\ UNCHANGED <<cacheVars, newW, oldW, skipWaiting, newHandlers, oldInstall, oldActivate, oldSyncs>>

\* .then((cachedResponse) => ...)
OldServeFromCache(f, h) ==
    IF h # NoEntry
    THEN [f EXCEPT !.cacheRead = TRUE, !.hit = h, !.response = h, !.pc = "done"]
    ELSE [f EXCEPT !.cacheRead = TRUE, !.pc = "net"]

OldFetchMatch(i) ==
    /\ i \in DOMAIN oldFetches
    /\ oldFetches[i].pc = "match"
    /\ oldFetches' = [oldFetches EXCEPT ![i] = OldServeFromCache(@, MatchAll(cacheList, store, @.req))]
    /\ UNCHANGED <<cacheVars, newW, oldW, skipWaiting, newHandlers, oldInstall, oldActivate, oldSyncs>>

\* what the handler does with the outcome r of fetch(event.request): in the
\* catch, get('accept') of a request without the header is null and
\* .includes throws; a request that does not accept HTML resolves undefined
OldFetchSettle(f, r) ==
    IF IsResponse(r)
    THEN IF ~Cacheable(r)
         THEN [f EXCEPT !.netCalled = TRUE, !.net = r, !.response = r, !.pc = "done"]
         ELSE [f EXCEPT !.netCalled = TRUE, !.net = r, !.response = r, !.pc = "done",
                        !.bg = "open"]
    ELSE IF f.req.accept = "absent"
         THEN [f EXCEPT !.netCalled = TRUE, !.net = r, !.response = Rejected, !.pc = "done"]
         ELSE IF AcceptIncludesHtml(f.req.accept)
              THEN [f EXCEPT !.netCalled = TRUE, !.net = r, !.pc = "offline"]
              ELSE [f EXCEPT !.netCalled = TRUE, !.net = r, !.response = NoEntry, !.pc = "done"]

OldFetchNet(i, r) ==
    /\ i \in DOMAIN oldFetches
    /\ oldFetches[i].pc = "net"
    /\ r \in {Failed} \cup NetResponses(oldFetches[i].req.url)
    /\ oldFetches' = [oldFetches EXCEPT ![i] = OldFetchSettle(@, r)]
    /\ UNCHANGED <<cacheVars, newW, oldW, skipWaiting, newHandlers, oldInstall, oldActivate, oldSyncs>>

\* return caches.match(OFFLINE_URL): whatever the lookup gives, undefined included
OldOfflineResponse(h) == h

OldFetchOffline(i) ==
    /\ i \in DOMAIN oldFetches
    /\ oldFetches[i].pc = "offline"
    /\ oldFetches' = [oldFetches EXCEPT ![i] =
          [@ EXCEPT !.response = OldOfflineResponse(MatchAll(cacheList, store, Resolve(OLD_OFFLINE_URL))),
                    !.pc = "done"]]
    /\ UNCHANGED <<cacheVars, newW, oldW, skipWaiting, newHandlers, oldInstall, oldActivate, oldSyncs>>

\* caches.open(CACHE_NAME).then(...), not awaited by respondWith
OldFetchBgOpen(i) ==
    /\ i \in DOMAIN oldFetches
    /\ oldFetches[i].bg = "open"
    /\ cacheList' = Open(cacheList, OLD_CACHE_NAME)
    /\ oldFetches' = [oldFetches EXCEPT ![i] = [@ EXCEPT !.bg = "put", !.live = TRUE]]
    /\ UNCHANGED <<store, newW, oldW, skipWaiting, newHandlers, oldInstall, oldActivate, oldSyncs>>

\* cache.put(event.request, responseToCache): rejects for a request that is
\* not a GET; writes to the cache the handle was opened on
OldFetchBgPut(i) ==
    /\ i \in DOMAIN oldFetches
    /\ oldFetches[i].bg = "put"
    /\ IF oldFetches[i].req.method # "GET"
       THEN /\ store' = store
            /\ oldFetches' = [oldFetches EXCEPT ![i].bg = "failed"]
       ELSE /\ store' = IF oldFetches[i].live
                        THEN Put(store, OLD_CACHE_NAME, oldFetches[i].req.url.path, oldFetches[i].net)
                        ELSE store
            /\ oldFetches' = [oldFetches EXCEPT ![i].bg = "stored"]
    /\ UNCHANGED <<cacheList, newW, oldW, skipWaiting, newHandlers, oldInstall, oldActivate, oldSyncs>>

(***************************************************************************)
(* The superseded worker: sync and syncQueuedData.                         *)
(***************************************************************************)
OldSyncTags == {"background-sync", "emergency-data-sync"}

\* one run of syncQueuedData, started for the tag 'background-sync' only
OldFlush(tag) ==
    [pc |-> IF tag = "background-sync" THEN "open" ELSE "none",
     read |-> NoEntry,                 \* what cache.match returned
     removed |-> NoEntry,              \* what cache.delete removed
     result |-> "pending"]             \* the promise given to waitUntil

OldSyncDispatch(tag) ==
    /\ oldW = "activated"
    /\ Len(oldSyncs) < MaxOldSync
    /\ oldSyncs' = Append(oldSyncs, [tag |-> tag, fl |-> OldFlush(tag)])
    /\ UNCHANGED <<cacheVars, newW, oldW, skipWaiting, newHandlers, oldInstall, oldActivate, oldFetches>>

\* const cache = await caches.open(CACHE_NAME)
OldSyncOpen(i) ==
    /\ i \in DOMAIN oldSyncs
    /\ oldSyncs[i].fl.pc = "open"
    /\ cacheList' = Open(cacheList, OLD_CACHE_NAME)
    /\ oldSyncs' = [oldSyncs EXCEPT ![i].fl.pc = "match"]
    /\ UNCHANGED <<store, newW, oldW, skipWaiting, newHandlers, oldInstall, oldActivate, oldFetches>>

\* const queuedData = await cache.match('/queued-data'): nothing queued ends
\* the function
OldSyncMatch(i) ==
    /\ i \in DOMAIN oldSyncs
    /\ oldSyncs[i].fl.pc = "match"
    /\ LET h == Match(store, OLD_CACHE_NAME, QUEUED_KEY)
       IN oldSyncs' = [oldSyncs EXCEPT ![i].fl =
             IF h = NoEntry THEN [@ EXCEPT !.pc = "done", !.result = "fulfilled"]
             ELSE [@ EXCEPT !.pc = "json", !.read = h]]
    /\ UNCHANGED <<cacheVars, newW, oldW, skipWaiting, newHandlers, oldInstall, oldActivate, oldFetches>>

\* const data = await queuedData.json(): the catch logs a failure and does
\* not rethrow it, so the function's promise fulfils either way
OldSyncJson(i) ==
    /\ i \in DOMAIN oldSyncs
    /\ oldSyncs[i].fl.pc = "json"
    /\ oldSyncs' = [oldSyncs EXCEPT ![i].fl =
          IF ~JsonParses(@.read.body) THEN [@ EXCEPT !.pc = "done", !.result = "fulfilled"]
          ELSE [@ EXCEPT !.pc = "delete"]]
    /\ UNCHANGED <<cacheVars, newW, oldW, skipWaiting, newHandlers, oldInstall, oldActivate, oldFetches>>

\* await cache.delete('/queued-data')
OldSyncDelete(i) ==
    /\ i \in DOMAIN oldSyncs
    /\ oldSyncs[i].fl.pc = "delete"
    /\ store' = Remove(store, OLD_CACHE_NAME, QUEUED_KEY)
    /\ oldSyncs' = [oldSyncs EXCEPT ![i].fl =
          [@ EXCEPT !.pc = "done", !.removed = Match(store, OLD_CACHE_NAME, QUEUED_KEY),
                    !.result = "fulfilled"]]
    /\ UNCHANGED <<cacheList, newW, oldW, skipWaiting, newHandlers, oldInstall, oldActivate, oldFetches>>

(***************************************************************************)
(* sw.js: message.                                                         *)
(***************************************************************************)
MessageData ==
    { [type |-> "CACHE_EMERGENCY_DATA", payload |-> p] : p \in Payloads }
    \cup { [type |-> "SKIP_WAITING", payload |-> [defined |-> FALSE, id |-> 0]],
           [type |-> "PING", payload |-> [defined |-> FALSE, id |-> 0]] }

\* the listener up to its first promise: CACHE_EMERGENCY_DATA starts
\* caches.open, SKIP_WAITING calls self.skipWaiting(), the rest is ignored
MessagePc(d) == IF d.type = "CACHE_EMERGENCY_DATA" THEN "open" ELSE "done"

MessageDispatch(d, limit) ==
    /\ newW \in {"installed", "activating", "activated"}
    /\ Len(messages) < limit
    /\ messages' = Append(messages, [data |-> d, pc |-> MessagePc(d)])
    /\ skipWaiting' = (skipWaiting \/ d.type = "SKIP_WAITING")
    /\ UNCHANGED <<cacheVars, newW, oldW, install, activate, fetches, syncs, oldHandlers>>

\* caches.open(CACHE_NAME).then(...)
MessageOpen(i) ==
    /\ i \in DOMAIN messages
    /\ messages[i].pc = "open"
    /\ cacheList' = Open(cacheList, CACHE_NAME)
    /\ messages' = [messages EXCEPT ![i].pc = "put"]
    /\ UNCHANGED <<store, newW, oldW, skipWaiting, install, activate, fetches, syncs, oldHandlers>>

\* cache.put('/emergency-data.json', new Response(JSON.stringify(payload)))
MessagePut(i) ==
    /\ i \in DOMAIN messages
    /\ messages[i].pc = "put"
    /\ store' = Put(store, CACHE_NAME, EMERGENCY_KEY, PayloadResponse(messages[i].data.payload))
    /\ messages' = [messages EXCEPT ![i].pc = "done"]
    /\ UNCHANGED <<cacheList, newW, oldW, skipWaiting, install, activate, fetches, syncs, oldHandlers>>

(***************************************************************************)
(* sw.js: sync, periodicsync and the two flush functions.                  *)
(***************************************************************************)
SyncKeys == {EMERGENCY_KEY, SCANS_KEY}

SyncTags == {"emergency-data-sync", "student-scans-sync", "emergency-system-sync"}

\* listeners that look at the tag and not at the kind of the event
FlushesByTagOnly(kind, tag) ==
    IF tag = "emergency-data-sync" THEN {EMERGENCY_KEY}
    ELSE IF tag = "student-scans-sync" THEN {SCANS_KEY}
    ELSE IF tag = "emergency-system-sync" THEN SyncKeys ELSE {}

\* the flushes an event starts: the keys of the functions given to waitUntil
Flushes(kind, tag) ==
    IF kind = "sync"
    THEN IF tag = "emergency-data-sync" THEN {EMERGENCY_KEY}
         ELSE IF tag = "student-scans-sync" THEN {SCANS_KEY} ELSE {}
    ELSE IF tag = "emergency-system-sync" THEN SyncKeys ELSE {}

\* one run of syncEmergencyData or syncStudentScans
Flush(started) ==
    [pc |-> IF started THEN "open" ELSE "none",
     read |-> NoEntry,                 \* what cache.match returned
     removed |-> NoEntry,              \* what cache.delete removed
     result |-> "pending"]             \* the async function's promise

SyncDispatch(kind, tag, limit) ==
    /\ newW = "activated"
    /\ Len(syncs) < limit
    /\ syncs' = Append(syncs, [kind |-> kind, tag |-> tag,
                               fl |-> [key \in SyncKeys |-> Flush(key \in Flushes(kind, tag))]])
    /\ UNCHANGED <<cacheVars, newW, oldW, skipWaiting, install, activate, fetches, messages, oldHandlers>>

\* const cache = await caches.open(CACHE_NAME)
FlushOpen(i, key) ==
    /\ i \in DOMAIN syncs
    /\ syncs[i].fl[key].pc = "open"
    /\ cacheList' = Open(cacheList, CACHE_NAME)
    /\ syncs' = [syncs EXCEPT ![i].fl[key].pc = "match"]
    /\ UNCHANGED <<store, newW, oldW, skipWaiting, install, activate, fetches, messages, oldHandlers>>

\* the flush after cache.match(key) returned h: nothing cached fulfils, else
\* the body of h is read next
FlushRead(fl, h) ==
    IF h = NoEntry THEN [fl EXCEPT !.pc = "done", !.result = "fulfilled"]
    ELSE [fl EXCEPT !.pc = "json", !.read = h]

\* a flush whose catch logs the error of json() and does not rethrow it
FlushParseSwallows(fl) ==
    IF ~JsonParses(fl.read.body) THEN [fl EXCEPT !.pc = "done", !.result = "fulfilled"]
    ELSE [fl EXCEPT !.pc = "delete"]

\* the flush after json() of the response it read settled: a body that does
\* not parse rejects (the catch rethrows), else the delete is next
FlushParse(fl) ==
    IF ~JsonParses(fl.read.body) THEN [fl EXCEPT !.pc = "done", !.result = "rejected"]
    ELSE [fl EXCEPT !.pc = "delete"]

\* const cachedData = await cache.match(key)
FlushMatch(i, key) ==
    /\ i \in DOMAIN syncs
    /\ syncs[i].fl[key].pc = "match"
    /\ syncs' = [syncs EXCEPT ![i].fl[key] = FlushRead(@, Match(store, CACHE_NAME, key))]
    /\ UNCHANGED <<cacheVars, newW, oldW, skipWaiting, install, activate, fetches, messages, oldHandlers>>

\* const data = await cachedData.json(): the body read by cache.match is
\* parsed in a later turn, whatever the cache holds by then
FlushJson(i, key) ==
    /\ i \in DOMAIN syncs
    /\ syncs[i].fl[key].pc = "json"
    /\ syncs' = [syncs EXCEPT ![i].fl[key] = FlushParse(@)]
    /\ UNCHANGED <<cacheVars, newW, oldW, skipWaiting, install, activate, fetches, messages, oldHandlers>>

\* await cache.delete(key): whatever is under the key now is removed
FlushDelete(i, key) ==
    /\ i \in DOMAIN syncs
    /\ syncs[i].fl[key].pc = "delete"
    /\ store' = Remove(store, CACHE_NAME, key)
    /\ syncs' = [syncs EXCEPT ![i].fl[key] =
          [@ EXCEPT !.pc = "done", !.removed = Match(store, CACHE_NAME, key), !.result = "fulfilled"]]
    /\ UNCHANGED <<cacheList, newW, oldW, skipWaiting, install, activate, fetches, messages, oldHandlers>>

\* Promise.all over promises in the given states: it rejects as soon as one
\* rejects and fulfils when all have
PromiseAll(results) ==
    IF "rejected" \in results THEN "rejected"
    ELSE IF "pending" \in results THEN "pending" ELSE "fulfilled"

\* the promise the listener gave to event.waitUntil: the flush's own promise
\* for a sync event, Promise.all of the two flushes for a periodicsync event,
\* none for a tag the listener does not handle
WaitUntil(s) ==
    IF Flushes(s.kind, s.tag) = {} THEN "none"
    ELSE PromiseAll({ s.fl[key].result : key \in Flushes(s.kind, s.tag) })

(***************************************************************************)
(* The next-state relation.                                                *)
(***************************************************************************)
NetOutcomes == {Failed} \cup UNION { NetResponses(q.url) : q \in OldRequests \cup OfflineRequests }

\* the superseded worker
OldWorker ==
    \/ OldInstallStart
    \/ OldInstallOpen
    \/ \E F \in OldFailSets : OldInstallAddAll(F)
    \/ OldInstallSkipWaiting
    \/ OldActivateStart
    \/ OldActivateKeys
    \/ \E n \in CacheNames : OldActivateDelete(n)
    \/ OldActivateClaim
    \/ \E req \in OldRequests : OldFetchDispatch(req)
    \/ \E i \in 1..MaxOldFetch : OldFetchMatch(i)
    \/ \E i \in 1..MaxOldFetch : \E r \in NetOutcomes : OldFetchNet(i, r)
    \/ \E i \in 1..MaxOldFetch : OldFetchOffline(i)
    \/ \E i \in 1..MaxOldFetch : OldFetchBgOpen(i)
    \/ \E i \in 1..MaxOldFetch : OldFetchBgPut(i)
    \/ \E tag \in OldSyncTags : OldSyncDispatch(tag)
    \/ \E i \in 1..MaxOldSync : OldSyncOpen(i)
    \/ \E i \in 1..MaxOldSync : OldSyncMatch(i)
    \/ \E i \in 1..MaxOldSync : OldSyncJson(i)
    \/ \E i \in 1..MaxOldSync : OldSyncDelete(i)

\* install and activate of sw.js
Lifecycle ==
    \/ InstallStart
    \/ \E ok \in BOOLEAN : InstallOpen(ok)
    \/ \E url \in Range(STATIC_CACHE_URLS) : \E r \in AddOutcomes(url) : InstallAdd(url, r)
    \/ InstallSkipWaiting
    \/ ActivateStart
    \/ ActivateKeys
    \/ \E n \in CacheNames : ActivateDelete(n)
    \/ ActivateClaim
    \/ ActivateDone

\* the steps of the fetch events of sw.js
FetchSteps ==
    \/ \E i \in 1..MaxFetch : FetchMatch(i)
    \/ \E i \in 1..MaxFetch : \E r \in NetOutcomes : FetchNet(i, r)
    \/ \E i \in 1..MaxFetch : FetchOffline(i)
    \/ \E i \in 1..MaxFetch : FetchBgOpen(i)
    \/ \E i \in 1..MaxFetch : \E ok \in BOOLEAN : FetchBgPut(i, ok)

\* the steps of the message events of sw.js
MessageSteps ==
    \/ \E i \in 1..MaxMessage : MessageOpen(i)
    \/ \E i \in 1..MaxMessage : MessagePut(i)

\* the steps of the sync and periodicsync events of sw.js
SyncSteps ==
    \/ \E i \in 1..MaxSync : \E key \in SyncKeys : FlushOpen(i, key)
    \/ \E i \in 1..MaxSync : \E key \in SyncKeys : FlushMatch(i, key)
    \/ \E i \in 1..MaxSync : \E key \in SyncKeys : FlushJson(i, key)
    \/ \E i \in 1..MaxSync : \E key \in SyncKeys : FlushDelete(i, key)

\* the whole system
Next ==
    \/ OldWorker
    \/ Lifecycle
    \/ \E req \in Requests : FetchDispatch(req, MaxFetch)
    \/ FetchSteps
    \/ \E d \in MessageData : MessageDispatch(d, MaxMessage)
    \/ MessageSteps
    \/ \E kind \in {"sync", "periodicsync"} : \E tag \in SyncTags : SyncDispatch(kind, tag, MaxSync)
    \/ SyncSteps

Spec == Init /\ [][Next]_vars

(***************************************************************************)
(* The parts of the system that are explored.  Each is the system with the *)
(* environment dispatching only some of the events.                        *)
(***************************************************************************)
\* the two workers' installs and activations, and the superseded worker's
\* fetch events, which can still be running when sw.js takes over
NextLifecycle ==
    \/ OldWorker
    \/ Lifecycle

SpecLifecycle == Init /\ [][NextLifecycle]_vars

\* a first installation of sw.js in which / and /manifest.json are fetched
\* with a 200 and only /index.html and /offline.html vary, every asset being
\* at its first revision, and its activation
ServeAddOutcomes(url) ==
    { r \in AddOutcomes(url) :
         /\ \/ IsResponse(r) /\ r.status = 200
            \/ url \in {"/index.html", OFFLINE_URL}
         /\ IsResponse(r) => r.body = NetBody(url) }

FirstInstall ==
    \/ InstallStart
    \/ \E ok \in BOOLEAN : InstallOpen(ok)
    \/ \E url \in Range(STATIC_CACHE_URLS) : \E r \in ServeAddOutcomes(url) : InstallAdd(url, r)
    \/ InstallSkipWaiting
    \/ ActivateStart
    \/ ActivateKeys
    \/ ActivateClaim
    \/ ActivateDone

\* sw.js serving fetch events
NextFetch ==
    \/ FirstInstall
    \/ \E req \in Requests : FetchDispatch(req, MaxFetch)
    \/ FetchSteps

SpecFetch == InitEmpty /\ [][NextFetch]_vars

\* sw.js queueing payloads and flushing them
NextSync ==
    \/ FirstInstall
    \/ \E d \in MessageData : MessageDispatch(d, MaxMessage)
    \/ MessageSteps
    \/ \E kind \in {"sync", "periodicsync"} : \E tag \in SyncTags : SyncDispatch(kind, tag, MaxSync)
    \/ SyncSteps

SpecSync == InitEmpty /\ [][NextSync]_vars

\* sw.js with one event of each kind
NextMix ==
    \/ FirstInstall
    \/ \E req \in Requests : FetchDispatch(req, MaxMix)
    \/ FetchSteps
    \/ \E d \in MessageData : MessageDispatch(d, MaxMix)
    \/ MessageSteps
    \/ \E kind \in {"sync", "periodicsync"} : \E tag \in SyncTags : SyncDispatch(kind, tag, MaxMix)
    \/ SyncSteps

SpecMix == InitEmpty /\ [][NextMix]_vars

\* sw.js installed on an origin that may hold an earlier deployment's cache,
\* then serving requests for the offline page while payloads are queued and
\* flushed
NextOffline ==
    \/ FirstInstall
    \/ \E n \in CacheNames : ActivateDelete(n)
    \/ \E req \in OfflineRequests : FetchDispatch(req, MaxFetch)
    \/ FetchSteps
    \/ \E d \in MessageData : MessageDispatch(d, MaxMix)
    \/ MessageSteps
    \/ \E kind \in {"sync", "periodicsync"} : \E tag \in SyncTags : SyncDispatch(kind, tag, MaxMix)
    \/ SyncSteps

SpecOffline == Init /\ [][NextOffline]_vars

(***************************************************************************)
(* Properties.                                                             *)
(***************************************************************************)
\* some existing cache has an entry for the path
Cached(path) == \E n \in Keys(cacheList) : store[n][path] # NoEntry

\* the entries the existing caches have for the path
CachedEntries(path) == { store[n][path] : n \in Keys(cacheList) } \ {NoEntry}

\* C1: a same-origin GET request that has an entry in the Cache Store when
\* the handler looks it up is answered with a cached entry and without a
\* network request, whatever else is running; the answer does not change
\* afterwards.
C1_CacheFirst ==
    [][\A i \in DOMAIN fetches :
          LET f == fetches[i]
              g == fetches'[i]
          IN /\ ( /\ f.pc = "match" /\ g.pc # "match"
                  /\ f.req.method = "GET" /\ SameOrigin(f.req.url)
                  /\ Cached(f.req.url.path) )
                   => ( /\ g.pc = "done"
                        /\ g.response \in CachedEntries(f.req.url.path)
                        /\ ~g.netCalled )
             /\ f.pc = "done" => (g.response = f.response /\ g.netCalled = f.netCalled)
      ]_vars

\* a hit has been served while another fetch event is waiting for the network
C1_Witness ==
    \E i, j \in DOMAIN fetches :
        /\ fetches[i].pc = "done" /\ fetches[i].hit # NoEntry
        /\ fetches[i].response = fetches[i].hit /\ ~fetches[i].netCalled
        /\ fetches[j].pc = "net"

\* C2 as stated: once a same-origin request that missed the cache has been
\* answered with a 200 "basic" network response, the current cache has an
\* entry for it.
C2_StoredWhenAnswered ==
    \A i \in DOMAIN fetches :
        LET f == fetches[i]
        IN ( /\ f.pc = "done" /\ f.intercepted /\ SameOrigin(f.req.url)
             /\ f.cacheRead /\ f.hit = NoEntry
             /\ IsResponse(f.net) /\ f.net.status = 200 /\ f.net.type = "basic" )
              => store[CACHE_NAME][f.req.url.path] # NoEntry

\* C2 amended: only a GET request gets a background write; the step that
\* completes the write leaves the network response (a 200 "basic" one) under
\* the request's path in the current cache; and while an entry written so is
\* there, another interception of the same URL is a hit without a network
\* request.
C2_StoredByBackgroundWrite ==
    [][\A i \in DOMAIN fetches :
          LET f == fetches[i]
              g == fetches'[i]
          IN /\ g.bg \in {"put", "stored"} => g.req.method = "GET"
             /\ (f.bg = "put" /\ g.bg = "stored")
                   => ( /\ CACHE_NAME \in Keys(cacheList')
                        /\ store'[CACHE_NAME][f.req.url.path] = f.net
                        /\ f.net.status = 200 /\ f.net.type = "basic" )
             /\ ( /\ f.pc = "match" /\ g.pc # "match" /\ f.req.method = "GET"
                  /\ \E j \in DOMAIN fetches :
                        /\ j # i /\ fetches[j].bg = "stored"
                        /\ fetches[j].req.url = f.req.url
                  /\ store[CACHE_NAME][f.req.url.path] # NoEntry )
                   => (g.hit # NoEntry /\ g.pc = "done" /\ ~g.netCalled)
      ]_vars

\* a background write has completed and a later interception of the same URL
\* was served the stored response without a network request
C2_Witness ==
    \E i, j \in DOMAIN fetches :
        /\ i < j
        /\ fetches[i].bg = "stored" /\ fetches[i].hit = NoEntry
        /\ fetches[j].req.url = fetches[i].req.url
        /\ fetches[j].pc = "done" /\ fetches[j].hit = fetches[i].net
        /\ ~fetches[j].netCalled

\* C3 as stated: when the activate handler's promise has settled, the existing
\* cache versions are exactly {CACHE_NAME}.
C3_OnlyCurrentSurvives ==
    activate.pc = "done" => Keys(cacheList) = {CACHE_NAME}

\* C3 amended: when the promise has settled the handler has deleted every
\* version it listed except CACHE_NAME, and only those; a version other than
\* CACHE_NAME exists only if a fetch handler of the superseded worker opened
\* it again after the deletion; CACHE_NAME exists if install created it (the
\* activate handler creates nothing).
C3_StaleVersionsDeleted ==
    activate.pc = "done" =>
        /\ activate.deleted = activate.listed \ {CACHE_NAME}
        /\ \A n \in Keys(cacheList) \ {CACHE_NAME} :
              /\ n = OLD_CACHE_NAME
              /\ \E i \in DOMAIN oldFetches : oldFetches[i].live
        /\ (install.stored \cup install.failed # {}) => CACHE_NAME \in Keys(cacheList)

\* the activation deleted two other versions and only the current one is left
C3_Witness ==
    /\ activate.pc = "done"
    /\ activate.deleted = {OLD_CACHE_NAME, OTHER_CACHE_NAME}
    /\ Keys(cacheList) = {CACHE_NAME}

\* a flush of the emergency key that had read an entry completes in this step
EmergencyFlushCompletes(i) ==
    /\ syncs[i].fl[EMERGENCY_KEY].pc # "done"
    /\ syncs'[i].fl[EMERGENCY_KEY].pc = "done"
    /\ syncs'[i].fl[EMERGENCY_KEY].read # NoEntry

\* C4: when a flush that read a payload written by a message completes, the
\* entry is absent if the flush succeeded; if it failed, the entry is still
\* present and is the response the flush read, which a message wrote.
C4_FlushedOrKept ==
    [][\A i \in DOMAIN syncs :
          EmergencyFlushCompletes(i) =>
              LET fl == syncs'[i].fl[EMERGENCY_KEY]
              IN IF fl.result = "fulfilled"
                 THEN store'[CACHE_NAME][EMERGENCY_KEY] = NoEntry
                 ELSE /\ fl.result = "rejected"
                      /\ store' = store
                      /\ store'[CACHE_NAME][EMERGENCY_KEY] = fl.read
                      /\ \E m \in DOMAIN messages :
                            /\ messages[m].pc = "done"
                            /\ messages[m].data.type = "CACHE_EMERGENCY_DATA"
                            /\ fl.read = PayloadResponse(messages[m].data.payload)
      ]_vars

\* the request is the load of a page
IsHtmlNavigation(req) == req.mode = "navigate"

\* the handler answered with an HTML document
HtmlResponse(r) == IsResponse(r) /\ r.ctype = "text/html"

\* a same-origin navigation that missed the cache and found no network
FailedNavigation(f) ==
    /\ f.pc = "done" /\ f.intercepted /\ SameOrigin(f.req.url)
    /\ f.cacheRead /\ f.hit = NoEntry /\ f.net = Failed
    /\ IsHtmlNavigation(f.req)

\* C5 as stated: in both fetch handlers a same-origin navigation that misses
\* the cache and whose network request fails is answered with an HTML
\* response, never with a failure or with no response.
C5_NavigationFallback ==
    /\ \A i \in DOMAIN fetches : FailedNavigation(fetches[i]) => HtmlResponse(fetches[i].response)
    /\ \A i \in DOMAIN oldFetches : FailedNavigation(oldFetches[i]) => HtmlResponse(oldFetches[i].response)

\* C6 as stated: in both install handlers, whatever assets fail to be fetched,
\* the install completes successfully and every asset that was fetched is in
\* the version's cache.
C6_InstallTolerates ==
    /\ install.pc = "done" =>
          /\ install.result = "fulfilled"
          /\ \A u \in install.stored : store[CACHE_NAME][u] # NoEntry
    /\ (oldInstall.pc = "done" /\ activate.pc = "idle") =>
          /\ oldInstall.result = "fulfilled"
          /\ \A u \in Range(urlsToCache) \ oldInstall.failed : store[OLD_CACHE_NAME][u] # NoEntry

\* C7 as stated: what a successful flush removes from the Cache Store is the
\* entry it read.
C7_RemovesWhatItRead ==
    \A i \in DOMAIN syncs : \A key \in SyncKeys :
        LET fl == syncs[i].fl[key]
        IN (fl.pc = "done" /\ fl.removed # NoEntry) => fl.removed = fl.read

\* C8 as stated: the handler calls respondWith exactly for the http(s)
\* requests of the worker's own origin, and for the others does not read the
\* cache.
C8_InterceptsSameOriginOnly ==
    \A i \in DOMAIN fetches :
        /\ fetches[i].intercepted <=> SameOrigin(fetches[i].req.url)
        /\ ~SameOrigin(fetches[i].req.url) => ~fetches[i].cacheRead

\* C9 as stated: every entry of the Cache Store has status 200 and type "basic".
C9_OnlyBasic200 ==
    \A n \in CacheNames : \A p \in Paths :
        store[n][p] # NoEntry => (store[n][p].status = 200 /\ store[n][p].type = "basic")

\* C9 amended: every entry is a response; it is a "basic" network response,
\* of status 200 or, under a path of the static list (where install's
\* cache.add stores it), of any ok status; or it is the synthesized response
\* (status 200, type "default") under /emergency-data.json.
C9_StoredResponses ==
    \A n \in CacheNames : \A p \in Paths :
        LET e == store[n][p]
        IN e # NoEntry =>
              /\ IsResponse(e)
              /\ \/ e.type = "basic" /\ e.status = 200
                 \/ e.type = "basic" /\ Ok(e) /\ p \in Range(STATIC_CACHE_URLS)
                 \/ e.type = "default" /\ e.status = 200 /\ p = EMERGENCY_KEY

\* the cache holds an entry install stored with another ok status, one the
\* fetch handler stored and the one the message handler wrote
C9_Witness ==
    /\ \E p \in Range(STATIC_CACHE_URLS) : store[CACHE_NAME][p] # NoEntry /\ store[CACHE_NAME][p].status = 203
    /\ \E i \in DOMAIN fetches : fetches[i].bg = "stored" /\ fetches[i].req.url.path = "/api"
    /\ store[CACHE_NAME]["/api"] # NoEntry
    /\ store[CACHE_NAME][EMERGENCY_KEY] # NoEntry /\ store[CACHE_NAME][EMERGENCY_KEY].type = "default"

\* C10 as stated: after a successful install every identifier of the static
\* asset list has an entry in the current cache.
C10_AllAssetsCached ==
    (install.pc = "done" /\ install.result = "fulfilled") =>
        \A u \in Range(STATIC_CACHE_URLS) : store[CACHE_NAME][u] # NoEntry

\* C10 amended: the install always completes successfully; when it has, every
\* identifier was either stored or skipped (all four, or none when
\* caches.open failed), each stored one has the ok response that was
\* fetched for it in the current cache, and each skipped one has no entry.
C10_FetchedAssetsCached ==
    install.pc = "done" =>
        /\ install.result = "fulfilled"
        /\ install.pending = {}
        /\ install.stored \cap install.failed = {}
        /\ install.stored \cup install.failed \in {{}, Range(STATIC_CACHE_URLS)}
        /\ \A u \in install.stored :
              LET e == store[CACHE_NAME][u]
              IN IsResponse(e) /\ Ok(e) /\ e.body \in NetBodies(u)
        /\ \A u \in install.failed : store[CACHE_NAME][u] = NoEntry

\* an install completed with one asset skipped and the others stored
C10_Witness ==
    /\ install.pc = "done"
    /\ install.failed = {OFFLINE_URL}
    /\ store[CACHE_NAME][OFFLINE_URL] = NoEntry
    /\ \A u \in Range(STATIC_CACHE_URLS) \ {OFFLINE_URL} : store[CACHE_NAME][u] # NoEntry

\* C11: when the network request of an intercepted request that missed the
\* cache fails and the accept header is absent or does not include text/html,
\* the promise given to respondWith rejects in that step, no fallback is
\* looked up or synthesized, no cache write is started and the Cache Store is
\* left as it was; the rejection is final.
C11_FailurePropagates ==
    [][\A i \in DOMAIN fetches :
          LET f == fetches[i]
              g == fetches'[i]
          IN /\ ( /\ f.pc = "net" /\ g.pc # "net" /\ g.net = Failed
                  /\ f.req.accept \in {"absent", "*/*"} )
                   => ( /\ g.response = Rejected /\ g.pc = "done" /\ g.bg = "none"
                        /\ cacheList' = cacheList /\ store' = store )
             /\ (f.pc = "done" /\ f.response = Rejected) => g = f
      ]_vars

\* a request without accept header and one that accepts anything but HTML
\* have both been rejected after a miss and a network failure
C11_Witness ==
    \E i, j \in DOMAIN fetches :
        /\ fetches[i].req.accept = "absent" /\ fetches[j].req.accept = "*/*"
        /\ \A k \in {i, j} :
              /\ fetches[k].pc = "done" /\ fetches[k].cacheRead /\ fetches[k].hit = NoEntry
              /\ fetches[k].net = Failed /\ fetches[k].response = Rejected

\* the place of a flush in its one pass: open, match, json, delete, done
FlushRank(pc) ==
    CASE pc = "none" -> 0 [] pc = "open" -> 1 [] pc = "match" -> 2
      [] pc = "json" -> 3 [] pc = "delete" -> 4 [] pc = "done" -> 5

\* C12: a flush that read an entry whose body does not parse fails, and when
\* a flush has failed the promise the sync or periodicsync listener gave to
\* waitUntil is rejected; a flush only moves forward through its one pass, a
\* finished flush is never run again, and an event starts no flush after its
\* dispatch.
C12_FailureReachesHost ==
    [][\A i \in DOMAIN syncs : \A key \in SyncKeys :
          LET f == syncs[i].fl[key]
              g == syncs'[i].fl[key]
          IN /\ (g.pc = "done" /\ g.read # NoEntry /\ ~JsonParses(g.read.body))
                   => g.result = "rejected"
             /\ g.result = "rejected" => WaitUntil(syncs'[i]) = "rejected"
             /\ FlushRank(g.pc) >= FlushRank(f.pc)
             /\ f.pc = "done" => g = f
             /\ f.pc = "none" => g = f
      ]_vars

\* a sync event and a periodicsync event whose flush of the emergency key
\* failed on the same unparsable entry: both events' promises are rejected
\* and the entry is still there
C12_Witness ==
    \E i, j \in DOMAIN syncs :
        /\ syncs[i].kind = "sync" /\ syncs[j].kind = "periodicsync"
        /\ syncs[i].fl[EMERGENCY_KEY].result = "rejected"
        /\ syncs[j].fl[EMERGENCY_KEY].result = "rejected"
        /\ WaitUntil(syncs[i]) = "rejected" /\ WaitUntil(syncs[j]) = "rejected"
        /\ store[CACHE_NAME][EMERGENCY_KEY] = PayloadResponse([defined |-> FALSE, id |-> 0])

\* the listener's work the host waits for: the message listener calls neither
\* waitUntil nor respondWith, so the host waits for nothing once it returned
MessageWaitUntil(m) == "none"

\* a cache write the handler started has not finished
FetchWritePending(f) == f.bg \in {"open", "put"}
MessageWritePending(m) == m.pc \in {"open", "put"}
SyncWritePending(s) == \E key \in SyncKeys : s.fl[key].pc = "delete"

\* C13 as stated: while a cache write a handler started is pending, the
\* promise the handler gave to the host (waitUntil, respondWith) is pending
\* too: the host never sees the handler complete before its writes.
C13_HostWaitsForWrites ==
    /\ install.pc = "done" => install.pending = {}
    /\ activate.pc = "done" => activate.toDelete = {}
    /\ \A i \in DOMAIN fetches :
          FetchWritePending(fetches[i]) => fetches[i].response = Pending
    /\ \A i \in DOMAIN messages :
          MessageWritePending(messages[i]) => MessageWaitUntil(messages[i]) = "pending"
    /\ \A i \in DOMAIN syncs :
          SyncWritePending(syncs[i]) => WaitUntil(syncs[i]) = "pending"

\* C14 as stated: in the activate handler of sw.js clients.claim is called
\* only when the versions have been listed and every version to delete has
\* been deleted, and the handler completes only after the deletions and the
\* claim.
C14_ClaimAfterDeletion ==
    /\ activate.claimed => (activate.keysDone /\ activate.toDelete = {})
    /\ activate.pc = "done" =>
          (activate.keysDone /\ activate.toDelete = {} /\ activate.claimed)

\* C15: the install handler calls skipWaiting only in a step in which no
\* cache.add is pending and every identifier of the static list has been
\* stored or skipped; while an add is pending skipWaiting stays unsignalled.
C15_SkipWaitingAfterAdds ==
    [][/\ (~skipWaiting /\ skipWaiting' /\ install' # install)
             => ( /\ install.pc = "adding" /\ install.pending = {}
                  /\ install.stored \cup install.failed = Range(STATIC_CACHE_URLS)
                  /\ install.stored \cap install.failed = {} )
       /\ (install.pc = "adding" /\ install.pending # {} /\ messages' = messages)
             => ~skipWaiting'
      ]_vars

\* skipWaiting has been signalled by an install in which some adds succeeded
\* and some were skipped
C15_Witness ==
    /\ skipWaiting /\ install.pc = "done"
    /\ install.stored # {} /\ install.failed # {}
    /\ install.stored \cup install.failed = Range(STATIC_CACHE_URLS)

\* C16 as stated: when two CACHE_EMERGENCY_DATA messages have been delivered,
\* no flush has run and both handlers' writes have finished, the entry under
\* /emergency-data.json is the payload of the message delivered last.
C16_LastDeliveredWins ==
    ( /\ Len(messages) = 2 /\ syncs = <<>>
      /\ \A i \in DOMAIN messages :
            messages[i].data.type = "CACHE_EMERGENCY_DATA" /\ messages[i].pc = "done" )
     => /\ CACHE_NAME \in Keys(cacheList)
        /\ store[CACHE_NAME][EMERGENCY_KEY] = PayloadResponse(messages[2].data.payload)

\* the reserved keys the trigger s names
MayFlush(s) ==
    IF s.kind = "sync" /\ s.tag = "emergency-data-sync" THEN {EMERGENCY_KEY}
    ELSE IF s.kind = "sync" /\ s.tag = "student-scans-sync" THEN {SCANS_KEY}
    ELSE IF s.kind = "periodicsync" /\ s.tag = "emergency-system-sync" THEN SyncKeys
    ELSE {}

\* what every step of a trigger's flush of a key does, whatever C17 says of
\* the existence of the cache: only a flush the tag names runs, a step
\* removes at most the entry under its key, and a lookup that finds nothing
\* ends the flush with success
FlushFrame(i, key) ==
    LET f == syncs[i].fl[key]
        g == syncs'[i].fl[key]
    IN /\ g # f => key \in MayFlush(syncs[i])
       /\ g # f => \/ store' = store
                   \/ f.pc = "delete" /\ store' = Remove(store, CACHE_NAME, key)
       /\ (g # f /\ f.pc = "match" /\ store[CACHE_NAME][key] = NoEntry)
             => (g.pc = "done" /\ g.result = "fulfilled" /\ g.removed = NoEntry)

\* C17 as stated: a trigger flushes only the key its tag names and removes
\* only that key's entry, an event with another tag starts no flush, and a
\* step of a flush whose key is absent changes nothing in the Cache Store.
C17_FlushChangesOnlyItsKey ==
    [][/\ \A i \in DOMAIN syncs' : \A key \in SyncKeys \ MayFlush(syncs'[i]) :
             syncs'[i].fl[key].pc = "none"
       /\ \A i \in DOMAIN syncs : \A key \in SyncKeys :
             /\ FlushFrame(i, key)
             /\ (syncs'[i].fl[key] # syncs[i].fl[key] /\ store[CACHE_NAME][key] = NoEntry)
                   => (store' = store /\ cacheList' = cacheList)
      ]_vars

\* C17 amended: as stated, except that a flush whose key is absent changes no
\* entry of the Cache Store: its caches.open creates the current version,
\* empty, when that version does not exist, and is the only step of a flush
\* that changes the set of versions.
C17_FlushChangesOnlyEntryOfItsKey ==
    [][/\ \A i \in DOMAIN syncs' : \A key \in SyncKeys \ MayFlush(syncs'[i]) :
             syncs'[i].fl[key].pc = "none"
       /\ \A i \in DOMAIN syncs : \A key \in SyncKeys :
             /\ FlushFrame(i, key)
             /\ (syncs'[i].fl[key] # syncs[i].fl[key] /\ store[CACHE_NAME][key] = NoEntry)
                   => /\ store' = store
                      /\ \/ cacheList' = cacheList
                         \/ /\ syncs[i].fl[key].pc = "open"
                            /\ CACHE_NAME \notin Keys(cacheList)
                            /\ cacheList' = Append(cacheList, CACHE_NAME)
                            /\ store'[CACHE_NAME] = EmptyCache
             /\ (syncs'[i].fl[key] # syncs[i].fl[key] /\ store[CACHE_NAME][key] # NoEntry)
                   => cacheList' = cacheList
      ]_vars

\* after an install whose caches.open failed, a periodicsync trigger flushed
\* both keys, found neither and succeeded, and its caches.open created the
\* current version; a student-scans-sync trigger ran the scans flush only
C17_Witness ==
    /\ install.pc = "done" /\ install.stored \cup install.failed = {}
    /\ messages = <<>>
    /\ Keys(cacheList) = {CACHE_NAME} /\ store[CACHE_NAME] = EmptyCache
    /\ \E i, j \in DOMAIN syncs :
          /\ syncs[i].kind = "periodicsync" /\ WaitUntil(syncs[i]) = "fulfilled"
          /\ \A key \in SyncKeys : syncs[i].fl[key].read = NoEntry
          /\ syncs[j].kind = "sync" /\ syncs[j].tag = "student-scans-sync"
          /\ syncs[j].fl[SCANS_KEY].result = "fulfilled"
          /\ syncs[j].fl[EMERGENCY_KEY].pc = "none"

\* C18 as stated: the fetch handler completes no background write under a
\* reserved key, every entry under a reserved key is the response a
\* CACHE_EMERGENCY_DATA message wrote, and no flush reads a network response.
C18_ReservedKeysWrittenByMessageOnly ==
    /\ \A i \in DOMAIN fetches :
          fetches[i].bg = "stored" => fetches[i].req.url.path \notin SyncKeys
    /\ \A key \in SyncKeys :
          store[CACHE_NAME][key] # NoEntry =>
              \E m \in DOMAIN messages :
                  /\ messages[m].data.type = "CACHE_EMERGENCY_DATA"
                  /\ store[CACHE_NAME][key] = PayloadResponse(messages[m].data.payload)
    /\ \A i \in DOMAIN syncs : \A key \in SyncKeys :
          syncs[i].fl[key].read # NoEntry => syncs[i].fl[key].read.type # "basic"

\* C19 as stated: while the sw.js worker is activated no cache version named
\* emergency-system-v1.0.0 exists, whatever the superseded worker's fetch
\* handlers still do.
C19_OldVersionStaysDeleted ==
    newW = "activated" => OLD_CACHE_NAME \notin Keys(cacheList)

\* the offline page is in the cache of the current version
OfflinePagePresent(cl, st) ==
    CACHE_NAME \in Keys(cl) /\ st[CACHE_NAME][OFFLINE_URL] # NoEntry

\* C20 as stated: once /offline.html is in the current cache, no step of any
\* handler removes the cache, removes the entry or changes it.
C20_OfflinePageUnchanged ==
    [][OfflinePagePresent(cacheList, store)
          => /\ OfflinePagePresent(cacheList', store')
             /\ store'[CACHE_NAME][OFFLINE_URL] = store[CACHE_NAME][OFFLINE_URL]
      ]_vars

\* C20 amended: once /offline.html is in the current cache it stays there;
\* the one step that changes it is the background write of a fetch
\* interception of /offline.html itself that had missed the cache, which
\* puts its 200 "basic" network response for that URL in its place.
C20_OfflinePageKept ==
    [][OfflinePagePresent(cacheList, store)
          => /\ OfflinePagePresent(cacheList', store')
             /\ \/ store'[CACHE_NAME][OFFLINE_URL] = store[CACHE_NAME][OFFLINE_URL]
                \/ \E i \in DOMAIN fetches :
                      /\ fetches[i].bg = "put" /\ fetches'[i].bg = "stored"
                      /\ fetches[i].req.url.path = OFFLINE_URL
                      /\ fetches[i].cacheRead /\ fetches[i].hit = NoEntry
                      /\ fetches[i].net.status = 200 /\ fetches[i].net.type = "basic"
                      /\ fetches[i].net.body \in NetBodies(OFFLINE_URL)
                      /\ store'[CACHE_NAME][OFFLINE_URL] = fetches[i].net
      ]_vars

\* the install skipped the offline page, two interceptions of /offline.html
\* missed the cache and fetched different revisions, both background writes
\* have completed, and a payload was queued and flushed meanwhile: the page
\* is present, in the revision of one of the two
C20_Witness ==
    /\ OFFLINE_URL \in install.failed
    /\ \E i, j \in DOMAIN fetches :
          /\ fetches[i].bg = "stored" /\ fetches[j].bg = "stored"
          /\ fetches[i].req.url.path = OFFLINE_URL /\ fetches[j].req.url.path = OFFLINE_URL
          /\ fetches[i].net # fetches[j].net
          /\ store[CACHE_NAME][OFFLINE_URL] = fetches[j].net
    /\ \E m \in DOMAIN messages : messages[m].pc = "done"
    /\ \E k \in DOMAIN syncs : syncs[k].fl[EMERGENCY_KEY].removed # NoEntry

====
